---- MODULE Spec2Model ----
(***************************************************************************)
(* tv-explorer: the client-side response cache (src/utils/cache.ts:        *)
(* APICache, cachedFetch, invalidateCache) and the TMDB request layer      *)
(* built on it (fetchTMDB and the operations of src/utils/api.ts, which    *)
(* the source tree holds inside src/src/utils/imageUrl.ts); and the        *)
(* expiring localStorage value of src/hooks/useLocalStorage.ts.            *)
(*                                                                         *)
(* Strings are sequences of one-character strings, so that concatenation,  *)
(* String.prototype.includes and JSON.stringify are computed and not       *)
(* assumed.  Long literal constants of the program are abbreviated (the    *)
(* abbreviation is given where each is defined).  Time is the value of     *)
(* Date.now() in ticks; a tick is an arbitrary unit.  An optional value    *)
(* (a parameter that may be undefined) is <<>> when undefined and <<x>>    *)
(* when it is x.                                                           *)
(***************************************************************************)
EXTENDS Integers, Sequences, FiniteSets, TLC

VARIABLES
    cache,      \* APICache.cache: the Map, as the sequence of its entries in iteration order
    now,        \* Date.now()
    apiToken,   \* API_TOKEN, read once from the environment when the module loads
    calls,      \* the asynchronous calls of cachedFetch / fetchTMDB, each with its position
    ret,        \* the last direct APICache method call: its name, arguments and return value
    localStorage, \* window.localStorage: for every key the text stored under it, if any
    hook      \* useSearchTVShows: the props query and page of the last render, and
              \* the state { data, loading, error } kept by useState

vars == <<cache, now, apiToken, calls, ret, localStorage, hook>>

----------------------------------------------------------------------------
(* Bounds of the model *)

\* The clock is observed up to this horizon; at the horizon it stands for
\* "MaxTime or later".
MaxTime == 2

\* options.maxSize given to the APICache constructor (200 for the singleton).
MaxSizeOption == 2

\* options.ttl given to the APICache constructor, in ticks (5 minutes for
\* the singleton).
TtlOption == 2

\* The network attempts of one call are counted up to this number, which
\* then stands for "MaxAttempts or more".
MaxAttempts == 3

----------------------------------------------------------------------------
(* Values *)

None == <<>>
Some(x) == <<x>>

Min(a, b) == IF a <= b THEN a ELSE b

\* JavaScript values held as payloads: the falsy ones and two objects.
JsNull == "null"
Falsy == {"null", "0", "false", "''"}
Objects == {"A", "B"}
Payloads == Falsy \cup Objects

\* JavaScript's truthiness of a payload value: `if (cached)`.
Truthy(v) == v \notin Falsy

\* String.prototype.includes
Includes(s, sub) ==
    \E i \in 0..(Len(s) - Len(sub)) : SubSeq(s, i + 1, i + Len(sub)) = sub

\* Number to decimal text, as a template literal converts a status code.
RECURSIVE Digits(_)
Digits(n) ==
    LET d == <<"0", "1", "2", "3", "4", "5", "6", "7", "8", "9">>
    IN  IF n < 10 THEN <<d[n + 1]>> ELSE Digits(n \div 10) \o <<d[(n % 10) + 1]>>

----------------------------------------------------------------------------
(* JSON.stringify of a plain object whose values are strings or objects *)

JStr(s) == [t |-> "str", s |-> s, props |-> <<>>]
JObj(props) == [t |-> "obj", s |-> <<>>, props |-> props]
\* A number, held as its decimal text
JNum(n) == [t |-> "num", s |-> Digits(n), props |-> <<>>]
Prop(k, v) == [k |-> k, v |-> v]

RECURSIVE Escape(_)
Escape(s) ==
    IF s = <<>> THEN <<>>
    ELSE (IF Head(s) \in {"\"", "\\"} THEN <<"\\", Head(s)>> ELSE <<Head(s)>>)
         \o Escape(Tail(s))

Quote(s) == <<"\"">> \o Escape(s) \o <<"\"">>

RECURSIVE JSONstringify(_)
RECURSIVE StringifyProps(_)

StringifyProps(ps) ==
    IF ps = <<>> THEN <<>>
    ELSE Quote(Head(ps).k) \o <<":">> \o JSONstringify(Head(ps).v)
         \o (IF Len(ps) > 1 THEN <<",">> ELSE <<>>)
         \o StringifyProps(Tail(ps))

JSONstringify(v) ==
    IF v.t = "str" THEN Quote(v.s)
    ELSE IF v.t = "num" THEN v.s
    ELSE <<"{">> \o StringifyProps(v.props) \o <<"}">>

----------------------------------------------------------------------------
(* JSON.parse of a text that JSON.stringify has written *)

DigitChars == <<"0", "1", "2", "3", "4", "5", "6", "7", "8", "9">>
IsDigit(ch) == \E i \in 1..10 : DigitChars[i] = ch

\* The characters of a string literal from position i (after the opening
\* quote) to its closing quote, unescaped, and the position after it
RECURSIVE ParseChars(_, _)
ParseChars(text, i) ==
    IF text[i] = "\""
    THEN [s |-> <<>>, next |-> i + 1]
    ELSE IF text[i] = "\\"
         THEN LET r == ParseChars(text, i + 2)
              IN  [s |-> <<text[i + 1]>> \o r.s, next |-> r.next]
         ELSE LET r == ParseChars(text, i + 1)
              IN  [s |-> <<text[i]>> \o r.s, next |-> r.next]

\* The digits from position i, and the position after them
RECURSIVE ParseDigits(_, _)
ParseDigits(text, i) ==
    IF i <= Len(text) /\ IsDigit(text[i])
    THEN LET r == ParseDigits(text, i + 1)
         IN  [s |-> <<text[i]>> \o r.s, next |-> r.next]
    ELSE [s |-> <<>>, next |-> i]

RECURSIVE ParseValue(_, _)
RECURSIVE ParseMembers(_, _)

\* The members of an object from position i (after '{' or after a member) to
\* the closing brace
ParseMembers(text, i) ==
    IF text[i] = "}"
    THEN [props |-> <<>>, next |-> i + 1]
    ELSE LET j == IF text[i] = "," THEN i + 1 ELSE i
             name == ParseChars(text, j + 1)
             val == ParseValue(text, name.next + 1)
             rest == ParseMembers(text, val.next)
         IN  [props |-> <<Prop(name.s, val.v)>> \o rest.props, next |-> rest.next]

\* The value that starts at position i, and the position after it
ParseValue(text, i) ==
    IF text[i] = "\""
    THEN LET r == ParseChars(text, i + 1) IN [v |-> JStr(r.s), next |-> r.next]
    ELSE IF text[i] = "{"
         THEN LET r == ParseMembers(text, i + 1) IN [v |-> JObj(r.props), next |-> r.next]
         ELSE LET r == ParseDigits(text, i)
              IN  [v |-> [t |-> "num", s |-> r.s, props |-> <<>>], next |-> r.next]

JSONparse(text) == ParseValue(text, 1).v

\* The number that a decimal text denotes
RECURSIVE ToNumber(_)
ToNumber(digits) ==
    IF digits = <<>> THEN 0
    ELSE 10 * ToNumber(SubSeq(digits, 1, Len(digits) - 1))
         + ((CHOOSE i \in 1..10 : DigitChars[i] = digits[Len(digits)]) - 1)

\* object[name] of a parsed object: the value of the property, if there is one
Member(object, name) ==
    IF \E i \in 1..Len(object.props) : object.props[i].k = name
    THEN Some(object.props[CHOOSE i \in 1..Len(object.props) : object.props[i].k = name].v)
    ELSE None

----------------------------------------------------------------------------
(* APICache *)

DefaultMaxSize == 100

\* constructor: this.maxSize = options.maxSize || 100
maxSize == IF MaxSizeOption = 0 THEN DefaultMaxSize ELSE MaxSizeOption

\* 5 * 60 * 1000 ms, the constructor's fallback, in ticks
DefaultTtlFallback == 2

\* constructor: this.defaultTTL = options.ttl || 5 * 60 * 1000
defaultTTL == IF TtlOption = 0 THEN DefaultTtlFallback ELSE TtlOption

\* generateKey: params ? JSON.stringify(params) : '', appended to the url
generateKey(url, params) ==
    LET paramStr == IF params # None THEN JSONstringify(params[1]) ELSE <<>>
    IN  url \o paramStr

\* Map.prototype.get / has / delete / set on the sequence of entries
MapHas(c, key) == \E i \in 1..Len(c) : c[i].key = key
MapGet(c, key) == c[CHOOSE i \in 1..Len(c) : c[i].key = key]
MapDelete(c, key) == SelectSeq(c, LAMBDA e : e.key # key)
\* A Map whose set moves the key it overwrites to the end of the order
MapSetAtEnd(c, key, item) ==
    Append(SelectSeq(c, LAMBDA e : e.key # key),
           [key |-> key, data |-> item.data, timestamp |-> item.timestamp,
            expiresAt |-> item.expiresAt])

MapSet(c, key, item) ==
    LET e == [key |-> key, data |-> item.data, timestamp |-> item.timestamp,
              expiresAt |-> item.expiresAt]
    IN  IF MapHas(c, key)
        THEN [c EXCEPT ![CHOOSE i \in 1..Len(c) : c[i].key = key] = e]
        ELSE Append(c, e)

\* evictExpired: delete every entry with now > expiresAt
evictExpired(c, t) == SelectSeq(c, LAMBDA e : ~(t > e.expiresAt))

\* evictLRU: at or above maxSize, delete the first key of the Map if it is truthy
evictLRU(c) ==
    IF Len(c) >= maxSize
    THEN IF c # <<>> /\ Head(c).key # <<>> THEN MapDelete(c, Head(c).key) ELSE c
    ELSE c

\* A get that leaves the entry it hits where it is
getCacheInPlace(c, t, url, params) ==
    LET c1 == evictExpired(c, t)
        key == generateKey(url, params)
    IN  IF ~MapHas(c1, key) THEN c1
        ELSE LET item == MapGet(c1, key)
             IN  IF t > item.expiresAt THEN MapDelete(c1, key) ELSE c1

\* get: the Map it leaves
getCache(c, t, url, params) ==
    LET c1 == evictExpired(c, t)
        key == generateKey(url, params)
    IN  IF ~MapHas(c1, key) THEN c1
        ELSE LET item == MapGet(c1, key)
             IN  IF t > item.expiresAt THEN MapDelete(c1, key)
                 ELSE MapSet(MapDelete(c1, key), key, item)

\* get: the value it returns
getValue(c, t, url, params) ==
    LET c1 == evictExpired(c, t)
        key == generateKey(url, params)
    IN  IF ~MapHas(c1, key) THEN JsNull
        ELSE LET item == MapGet(c1, key)
             IN  IF t > item.expiresAt THEN JsNull ELSE item.data

\* A fallback that applies to an omitted ttl only (ttl ?? this.defaultTTL)
ttlUnlessOmitted(ttl) == IF ttl = None THEN defaultTTL ELSE ttl[1]

\* set: ttl || this.defaultTTL
ttlOrDefault(ttl) == IF ttl = None \/ ttl = Some(0) THEN defaultTTL ELSE ttl[1]

\* A set that evicts for capacity before it sweeps the expired entries
setCacheEvictingFirst(c, t, url, data, params, ttl) ==
    LET c2 == evictExpired(evictLRU(c), t)
        key == generateKey(url, params)
    IN  MapSet(c2, key, [data |-> data, timestamp |-> t,
                         expiresAt |-> t + ttlOrDefault(ttl)])

\* set: the Map it leaves
setCache(c, t, url, data, params, ttl) ==
    LET c2 == evictLRU(evictExpired(c, t))
        key == generateKey(url, params)
    IN  MapSet(c2, key, [data |-> data, timestamp |-> t,
                         expiresAt |-> t + ttlOrDefault(ttl)])

\* has: the Map it leaves, and the value it returns
hasCache(c, t, url, params) ==
    LET key == generateKey(url, params)
    IN  IF MapHas(c, key) /\ t > MapGet(c, key).expiresAt THEN MapDelete(c, key) ELSE c

\* A has that takes the entry for expired at the instant of its expiresAt
hasValueBeforeDeadline(c, t, url, params) ==
    LET key == generateKey(url, params)
    IN  MapHas(c, key) /\ t < MapGet(c, key).expiresAt

hasValue(c, t, url, params) ==
    LET key == generateKey(url, params)
    IN  MapHas(c, key) /\ ~(t > MapGet(c, key).expiresAt)

\* size: the Map it leaves (its length is the value returned)
sizeCache(c, t) == evictExpired(c, t)

----------------------------------------------------------------------------
(* Inputs of the direct APICache calls *)

Params1 == JObj(<<Prop(<<"p">>, JStr(<<"1">>))>>)

\* (url, params) pairs; the first is the empty url without params, whose key is ''
DirectRequests ==
    { <<<<>>, None>>, <<<<"u">>, None>>, <<<<"u">>, Some(Params1)>> }

SetData == {"A", "null"}
TtlArgs == {None, Some(0), Some(1)}

\* The record of a method call: the method and the value returned (get: the
\* data or null; has: true or false; size: the count)
Ret(op, value) == [op |-> op, value |-> value]
NoRet == Ret("none", "")

----------------------------------------------------------------------------
(* The state after the modules have loaded *)

\* import.meta.env.VITE_TMDB_API_KEY: undefined, the empty string or a token
Tokens == {None, Some(<<>>), Some(<<"k">>)}

\* A call: which function was called (fn) with which arguments (endpoint for
\* fetchTMDB; url, options, ttl and skip are those of its current cachedFetch
\* invocation), where it stands (pc: idle, fetch = awaiting the response of a
\* network request, backoff = awaiting the retry timer, resolved, rejected),
\* how it settled (kind, data, message, status), and its history: the
\* network requests issued (attempts), the backoff waits completed (waits) and
\* the HTTP 429 responses received (n429).
IdleCall ==
    [pc |-> "idle", fn |-> "none", endpoint |-> <<>>, url |-> <<>>, options |-> None,
     ttl |-> None, skip |-> FALSE, attempts |-> 0, waits |-> 0, n429 |-> 0, wakeAt |-> 0,
     kind |-> "none", data |-> "", message |-> <<>>, status |-> None]

Calls == {1}

\* useState({ data: null, loading: false, error: null })
InitialState == [data |-> JsNull, loading |-> FALSE, error |-> None]

\* useSearchTVShows mounted with an empty query and the default page
InitialHook == [query |-> <<>>, page |-> 1, state |-> InitialState]

\* The localStorage keys that the page uses
StorageKeys == { <<"a">>, <<"b">> }

Init ==
    /\ cache = <<>>
    /\ now = 0
    /\ apiToken \in Tokens
    /\ calls = [c \in Calls |-> IdleCall]
    /\ ret = NoRet
    /\ localStorage = [k \in StorageKeys |-> None]
    /\ hook = InitialHook

\* Date.now() advances
Tick ==
    /\ now < MaxTime
    /\ now' = now + 1
    /\ UNCHANGED <<cache, apiToken, calls, ret, localStorage, hook>>

----------------------------------------------------------------------------
(* Direct calls of the APICache methods *)

CacheGet(url, params) ==
    /\ cache' = getCache(cache, now, url, params)
    /\ ret' = Ret("get", getValue(cache, now, url, params))
    /\ UNCHANGED <<now, apiToken, calls, localStorage, hook>>

CacheSet(url, data, params, ttl) ==
    /\ cache' = setCache(cache, now, url, data, params, ttl)
    /\ ret' = Ret("set", "")
    /\ UNCHANGED <<now, apiToken, calls, localStorage, hook>>

CacheHas(url, params) ==
    /\ cache' = hasCache(cache, now, url, params)
    /\ ret' = Ret("has", IF hasValue(cache, now, url, params) THEN "true" ELSE "false")
    /\ UNCHANGED <<now, apiToken, calls, localStorage, hook>>

CacheClear ==
    /\ cache' = <<>>
    /\ ret' = Ret("clear", "")
    /\ UNCHANGED <<now, apiToken, calls, localStorage, hook>>

CacheSize ==
    /\ cache' = sizeCache(cache, now)
    /\ ret' = Ret("size", Digits(Len(sizeCache(cache, now))))
    /\ UNCHANGED <<now, apiToken, calls, localStorage, hook>>

CacheNext ==
    \/ Tick
    \/ \E r \in DirectRequests : CacheGet(r[1], r[2])
    \/ \E r \in DirectRequests, d \in SetData, ttl \in TtlArgs : CacheSet(r[1], d, r[2], ttl)
    \/ \E r \in DirectRequests : CacheHas(r[1], r[2])
    \/ CacheClear
    \/ CacheSize

\* The APICache class under every sequence of direct method calls, in a page
\* whose credential is configured
CacheInit == Init /\ apiToken = Some(<<"k">>)
CacheSpec == CacheInit /\ [][CacheNext]_vars

----------------------------------------------------------------------------
(* invalidateCache *)

\* The pattern argument: a string, or a RegExp that matches the literal text
\* `source`, without or with the global flag (/source/ or /source/g)
StringPattern(source) == [type |-> "string", source |-> source, global |-> FALSE]
RegExpPattern(source, global) == [type |-> "regexp", source |-> source, global |-> global]

\* RegExp.prototype.test(key) for a pattern whose lastIndex is lastIndex: the
\* result and the lastIndex it leaves.  Without the global flag the search
\* starts at 0 and lastIndex is left alone; with it the search starts at
\* lastIndex, which a match sets to its end and a failure to 0.
regexpTest(pattern, lastIndex, key) ==
    IF ~pattern.global
    THEN [result |-> Includes(key, pattern.source), lastIndex |-> lastIndex]
    ELSE LET n == Len(pattern.source)
             starts == { i \in lastIndex..(Len(key) - n) :
                            SubSeq(key, i + 1, i + n) = pattern.source }
         IN  IF starts = {} THEN [result |-> FALSE, lastIndex |-> 0]
             ELSE [result |-> TRUE,
                   lastIndex |-> n + CHOOSE i \in starts : \A j \in starts : i <= j]

\* The for loop over the keys of the Map: the keys pushed to keysToDelete
RECURSIVE keysToDelete(_, _, _)
keysToDelete(keys, pattern, lastIndex) ==
    IF keys = <<>> THEN <<>>
    ELSE IF pattern.type = "string"
         THEN (IF Includes(Head(keys), pattern.source) THEN <<Head(keys)>> ELSE <<>>)
              \o keysToDelete(Tail(keys), pattern, lastIndex)
         ELSE LET t == regexpTest(pattern, lastIndex, Head(keys))
              IN  (IF t.result THEN <<Head(keys)>> ELSE <<>>)
                  \o keysToDelete(Tail(keys), pattern, t.lastIndex)

\* invalidateCache(pattern): the Map it leaves
invalidateCache(c, pattern) ==
    LET keys == [i \in 1..Len(c) |-> c[i].key]
        deleted == keysToDelete(keys, pattern, 0)
    IN  SelectSeq(c, LAMBDA e : ~ \E i \in 1..Len(deleted) : deleted[i] = e.key)

\* An invalidateCache that aborts the requests that are under way
InvalidateCacheAborting(pattern) ==
    /\ cache' = invalidateCache(cache, pattern)
    /\ ret' = Ret("invalidateCache", "")
    /\ calls' = [c \in DOMAIN calls |->
                   IF calls[c].pc = "fetch"
                   THEN [calls[c] EXCEPT !.pc = "rejected", !.kind = "abort"]
                   ELSE calls[c]]
    /\ UNCHANGED <<now, apiToken, localStorage, hook>>

InvalidateCache(pattern) ==
    /\ cache' = invalidateCache(cache, pattern)
    /\ ret' = Ret("invalidateCache", "")
    /\ UNCHANGED <<now, apiToken, calls, localStorage, hook>>

InvalidatePatterns ==
    { StringPattern(<<>>), StringPattern(<<"u">>), StringPattern(<<"{">>),
      StringPattern(<<"x">>),
      RegExpPattern(<<"u">>, FALSE), RegExpPattern(<<"p">>, FALSE),
      RegExpPattern(<<"u">>, TRUE), RegExpPattern(<<"p">>, TRUE) }

InvalidateNext ==
    \/ Tick
    \/ \E r \in DirectRequests, d \in SetData : CacheSet(r[1], d, r[2], None)
    \/ \E pattern \in InvalidatePatterns : InvalidateCache(pattern)

\* The cache being filled and invalidated by pattern
InvalidateSpec == CacheInit /\ [][InvalidateNext]_vars

----------------------------------------------------------------------------
(* The same params written twice *)

\* Two params objects with the same properties, written in different orders:
\* { p: '1', q: '2' } and { q: '2', p: '1' }
ParamsPQ == JObj(<<Prop(<<"p">>, JStr(<<"1">>)), Prop(<<"q">>, JStr(<<"2">>))>>)
ParamsQP == JObj(<<Prop(<<"q">>, JStr(<<"2">>)), Prop(<<"p">>, JStr(<<"1">>))>>)

KeyRequests ==
    { <<<<"u">>, None>>, <<<<"u">>, Some(ParamsPQ)>>, <<<<"u">>, Some(ParamsQP)>> }

KeyNext ==
    \/ Tick
    \/ \E r \in KeyRequests : CacheGet(r[1], r[2])
    \/ \E r \in KeyRequests, d \in SetData : CacheSet(r[1], d, r[2], None)
    \/ CacheClear

\* The APICache class called with params objects that are built afresh for
\* every call
KeySpec == CacheInit /\ [][KeyNext]_vars

----------------------------------------------------------------------------
(* The network: what a request issued by fetch() can come back with *)

\* A response with response.ok and a body that decodes to `body`
OkResponse(body) == [type |-> "ok", status |-> 200, text |-> <<>>, body |-> body]
\* A response with a non-2xx status and a status text
HttpFailure(status, statusText) ==
    [type |-> "http", status |-> status, text |-> statusText, body |-> ""]
\* fetch() rejects (no response): a TypeError with a message
TransportFailure(message) == [type |-> "transport", status |-> 0, text |-> message, body |-> ""]
\* response.json() rejects: a SyntaxError with a message
DecodeFailure(message) == [type |-> "decode", status |-> 200, text |-> message, body |-> ""]

\* fetch() or response.json() rejects with a value that is not an Error
NonErrorRejection(value) == [type |-> "value", status |-> 0, text |-> value, body |-> ""]

TooManyRequests == HttpFailure(429, <<>>)

ResponseBodies == {"A", "0"}

OtherFailures ==
    { HttpFailure(404, <<>>),
      HttpFailure(500, <<"4", "2", "9">>),
      TransportFailure(<<"n", "e", "t">>),
      DecodeFailure(<<"a", "t", " ", "4", "2", "9">>),
      NonErrorRejection(<<"4", "2", "9">>) }

Outcomes == {OkResponse(b) : b \in ResponseBodies} \cup {TooManyRequests} \cup OtherFailures

\* The message of the Error that cachedFetch throws for a failed request:
\* `HTTP ${response.status}: ${response.statusText}`, or the rejection of
\* fetch() or response.json() passed through
thrownMessage(o) ==
    IF o.type = "http"
    THEN <<"H", "T", "T", "P", " ">> \o Digits(o.status) \o <<":", " ">> \o o.text
    ELSE o.text

\* What cachedFetch throws for a failed request: an Error with a message, or
\* the value that fetch() or response.json() rejected with (text is then the
\* value, which has no message)
thrown(o) == [isError |-> o.type # "value", message |-> thrownMessage(o)]

----------------------------------------------------------------------------
(* cachedFetch *)

Inc(n) == Min(n + 1, MaxAttempts)

\* await fetch(url, options): the request is issued and the call suspended
issueRequest(call) == [call EXCEPT !.pc = "fetch", !.attempts = Inc(call.attempts)]

resolveWith(call, data) == [call EXCEPT !.pc = "resolved", !.kind = "value", !.data = data]

rejectWith(call, kind, message) ==
    [call EXCEPT !.pc = "rejected", !.kind = kind, !.message = message]

\* cachedFetch lets the failure of its request through to its caller
rethrow(call, error) ==
    rejectWith(call, IF error.isError THEN "Error" ELSE "value", error.message)

\* cachedFetch that consults the cache although skip is set
cachedFetchCallIgnoringSkip(call, c, t) ==
    LET cached == getValue(c, t, call.url, call.options)
    IN  IF Truthy(cached) THEN resolveWith(call, cached) ELSE issueRequest(call)

\* cachedFetch up to its first await: the call it leaves
cachedFetchCall(call, c, t) ==
    IF call.skip THEN issueRequest(call)
    ELSE LET cached == getValue(c, t, call.url, call.options)
         IN  IF Truthy(cached) THEN resolveWith(call, cached) ELSE issueRequest(call)

\* cachedFetch up to its first await: the Map it leaves
cachedFetchCache(call, c, t) ==
    IF call.skip THEN c ELSE getCache(c, t, call.url, call.options)

\* cachedFetch that stores the response although skip is set
storeResponseIgnoringSkip(call, c, t, data) ==
    setCache(c, t, call.url, data, call.options, call.ttl)

\* cachedFetch that keeps the entry another call has stored in the meantime
storeResponseIfAbsent(call, c, t, data) ==
    IF call.skip \/ MapHas(c, generateKey(call.url, call.options)) THEN c
    ELSE setCache(c, t, call.url, data, call.options, call.ttl)

\* cachedFetch after a response that is ok and decodes: the Map it leaves
storeResponse(call, c, t, data) ==
    IF call.skip THEN c ELSE setCache(c, t, call.url, data, call.options, call.ttl)

----------------------------------------------------------------------------
(* fetchTMDB *)

\* 'https://api.themoviedb.org/3', abbreviated
BASE_URL == <<"h", "/", "3">>

\* A check that takes only undefined, not the empty string, for a missing token
tokenUndefined(token) == token = None

\* if (!API_TOKEN)
tokenMissing(token) == token = None \/ token = Some(<<>>)

\* 'TMDB API key is not configured. Please check your environment variables.',
\* abbreviated
NotConfigured == <<"n", "o", " ", "k", "e", "y">>

\* { headers: { Authorization: `Bearer ${API_TOKEN}`, 'Content-Type': 'application/json' } }
\* with the names abbreviated to h, A, C and the values to 'B ' + token and j
requestOptions(token) ==
    Some(JObj(<<Prop(<<"h">>,
                     JObj(<<Prop(<<"A">>, JStr(<<"B", " ">> \o token[1])),
                            Prop(<<"C">>, JStr(<<"j">>))>>))>>))

\* 'Failed to fetch data from TMDB API', abbreviated
FailedToFetch == <<"f", "a", "i", "l">>

\* throw new TMDBError(message): the constructor's second parameter, status,
\* is optional and stays undefined unless it is passed
throwTMDBError(call, message, status) ==
    [rejectWith(call, "TMDBError", message) EXCEPT !.status = status]

\* error instanceof Error && error.message.includes('429')
isRateLimit(error) == error.isError /\ Includes(error.message, <<"4", "2", "9">>)

\* setTimeout(resolve, 1000), in ticks
BackoffTicks == 1

\* A retry that passes cacheOptions on as they are
retryOptionsUnchanged(ttl, skip) == [ttl |-> ttl, skip |-> skip]

\* { ...cacheOptions, skip: true }
retryOptions(ttl, skip) == [ttl |-> ttl, skip |-> TRUE]

\* fetchTMDB(endpoint, cacheOptions) up to its first await: the call it leaves
fetchTMDBCall(call, endpoint, cacheOptions, c, t) ==
    IF tokenMissing(apiToken)
    THEN throwTMDBError([call EXCEPT !.fn = "fetchTMDB", !.endpoint = endpoint],
                        NotConfigured, None)
    ELSE cachedFetchCall([call EXCEPT !.fn = "fetchTMDB", !.endpoint = endpoint,
                                      !.url = BASE_URL \o endpoint,
                                      !.options = requestOptions(apiToken),
                                      !.ttl = cacheOptions.ttl,
                                      !.skip = cacheOptions.skip], c, t)

\* fetchTMDB(endpoint, cacheOptions) up to its first await: the Map it leaves
fetchTMDBCache(call, endpoint, cacheOptions, c, t) ==
    IF tokenMissing(apiToken) THEN c
    ELSE cachedFetchCache([call EXCEPT !.url = BASE_URL \o endpoint,
                                       !.options = requestOptions(apiToken),
                                       !.skip = cacheOptions.skip], c, t)

\* A catch block that lets what it caught through as it is
catchErrorRethrow(call, error, t) ==
    IF isRateLimit(error)
    THEN [call EXCEPT !.pc = "backoff", !.wakeAt = Min(t + BackoffTicks, MaxTime)]
    ELSE rethrow(call, error)

\* The catch block of fetchTMDB: the call it leaves
catchError(call, error, t) ==
    IF isRateLimit(error)
    THEN [call EXCEPT !.pc = "backoff", !.wakeAt = Min(t + BackoffTicks, MaxTime)]
    ELSE IF error.isError /\ Includes(error.message, <<"H", "T", "T", "P">>)
         THEN throwTMDBError(call, error.message, None)
         ELSE throwTMDBError(call, IF error.isError THEN error.message ELSE FailedToFetch,
                             None)

----------------------------------------------------------------------------
(* The operations: each builds an endpoint and the cacheOptions it passes to *)
(* fetchTMDB.  The ttl is in milliseconds, as in the source.  The literal    *)
(* parts of the paths are abbreviated (given with each operation).           *)

\* JavaScript values of the parameters of an operation
Undefined == [t |-> "undefined", s |-> <<>>, n |-> 0]
Null == [t |-> "null", s |-> <<>>, n |-> 0]
Str(s) == [t |-> "string", s |-> s, n |-> 0]
Num(n) == [t |-> "number", s |-> <<>>, n |-> n]

\* value.toString() of a string or a number
toString(v) == IF v.t = "number" THEN Digits(v.n) ELSE v.s

\* The percent-encoding of the characters that are escaped in the inputs used here
PercentCode(ch) ==
    CASE ch = " " -> <<"%", "2", "0">>
      [] ch = "&" -> <<"%", "2", "6">>
      [] ch = "," -> <<"%", "2", "C">>
      [] ch = "=" -> <<"%", "3", "D">>
      [] ch = "?" -> <<"%", "3", "F">>
      [] OTHER -> <<ch>>

\* encodeURIComponent
RECURSIVE encodeURIComponent(_)
encodeURIComponent(str) ==
    IF str = <<>> THEN <<>> ELSE PercentCode(Head(str)) \o encodeURIComponent(Tail(str))

\* The application/x-www-form-urlencoded serialisation of a name or a value:
\* as above, but a space becomes '+'
RECURSIVE formEncode(_)
formEncode(str) ==
    IF str = <<>> THEN <<>>
    ELSE (IF Head(str) = " " THEN <<"+">> ELSE PercentCode(Head(str))) \o formEncode(Tail(str))

\* URLSearchParams.prototype.toString of the appended (name, value) pairs
RECURSIVE URLSearchParamsToString(_)
URLSearchParamsToString(pairs) ==
    IF pairs = <<>> THEN <<>>
    ELSE formEncode(Head(pairs).k) \o <<"=">> \o formEncode(Head(pairs).v)
         \o (IF Len(pairs) > 1 THEN <<"&">> ELSE <<>>)
         \o URLSearchParamsToString(Tail(pairs))

\* getTrendingTVShows(timeWindow): '/trending/tv/' abbreviated to '/t/'
getTrendingTVShows(timeWindow) ==
    [name |-> "getTrendingTVShows", endpoint |-> <<"/", "t", "/">> \o timeWindow,
     ttl |-> Some(30 * 60 * 1000)]

\* getPopularTVShows that passes no cacheOptions
getPopularTVShowsNoTtl(page) ==
    [name |-> "getPopularTVShows", endpoint |-> <<"/", "p", "?", "p", "=">> \o Digits(page),
     ttl |-> None]

\* getPopularTVShows(page): '/tv/popular?page=' abbreviated to '/p?p='
getPopularTVShows(page) ==
    [name |-> "getPopularTVShows", endpoint |-> <<"/", "p", "?", "p", "=">> \o Digits(page),
     ttl |-> Some(15 * 60 * 1000)]

\* searchTVShows(query, page): '/search/tv?query=' abbreviated to '/s?q=',
\* '&page=' to '&p='
searchTVShows(query, page) ==
    LET encodedQuery == encodeURIComponent(query)
    IN  [name |-> "searchTVShows",
         endpoint |-> <<"/", "s", "?", "q", "=">> \o encodedQuery
                        \o <<"&", "p", "=">> \o Digits(page),
         ttl |-> Some(5 * 60 * 1000)]

\* getTVShowDetails(id): '/tv/' abbreviated to '/v/'
getTVShowDetails(id) ==
    [name |-> "getTVShowDetails", endpoint |-> <<"/", "v", "/">> \o Digits(id),
     ttl |-> Some(60 * 60 * 1000)]

\* A filter that lets the empty string through
appendedUnlessNullish(value) == value.t # "undefined" /\ value.t # "null"

\* value !== undefined && value !== null && value !== ''
appended(value) ==
    value.t # "undefined" /\ value.t # "null" /\ ~(value.t = "string" /\ value.s = <<>>)

\* discoverTVShows(params): params is the sequence of Object.entries(params);
\* '/discover/tv' abbreviated to '/d'
discoverTVShows(params) ==
    LET kept == SelectSeq(params, LAMBDA e : appended(e.v))
        queryParams == [i \in 1..Len(kept) |-> [k |-> kept[i].k, v |-> toString(kept[i].v)]]
        queryString == URLSearchParamsToString(queryParams)
    IN  [name |-> "discoverTVShows",
         endpoint |-> <<"/", "d">>
                        \o (IF queryString # <<>> THEN <<"?">> \o queryString ELSE <<>>),
         ttl |-> Some(10 * 60 * 1000)]

\* getTVGenres(): '/genre/tv/list' abbreviated to '/g'
getTVGenres ==
    [name |-> "getTVGenres", endpoint |-> <<"/", "g">>, ttl |-> Some(24 * 60 * 60 * 1000)]

----------------------------------------------------------------------------
(* The calls *)

\* (url, options) of the direct cachedFetch calls
FetchRequests == { <<<<"u">>, None>> }
FetchTtls == {None, Some(1)}

\* The operations: getTrendingTVShows (endpoint '/trending/tv/day' abbreviated,
\* ttl 30 minutes in ticks) and getTVShowCredits (no cacheOptions)
Operations ==
    { [endpoint |-> <<"/", "t">>, ttl |-> Some(2)],
      [endpoint |-> <<"/", "c">>, ttl |-> None] }

\* cachedFetch(url, options, { ttl, skip }) is called
StartCachedFetch(c, url, options, ttl, skip) ==
    LET call == [calls[c] EXCEPT !.fn = "cachedFetch", !.url = url, !.options = options,
                                 !.ttl = ttl, !.skip = skip]
    IN  /\ calls[c].pc = "idle"
        /\ calls' = [calls EXCEPT ![c] = cachedFetchCall(call, cache, now)]
        /\ cache' = cachedFetchCache(call, cache, now)
        /\ UNCHANGED <<now, apiToken, ret, localStorage, hook>>

\* An operation is called: fetchTMDB(endpoint, { ttl })
StartOperation(c, op) ==
    LET cacheOptions == [ttl |-> op.ttl, skip |-> FALSE]
    IN  /\ calls[c].pc = "idle"
        /\ calls' = [calls EXCEPT
                       ![c] = fetchTMDBCall(calls[c], op.endpoint, cacheOptions, cache, now)]
        /\ cache' = fetchTMDBCache(calls[c], op.endpoint, cacheOptions, cache, now)
        /\ UNCHANGED <<now, apiToken, ret, localStorage, hook>>

\* A cachedFetch without the `!response.ok` check: the body of a non-2xx
\* response is decoded, stored and returned like that of a 2xx response
RespondWithoutOkCheck(c, o) ==
    LET call == [calls[c] EXCEPT
                   !.n429 = IF o = TooManyRequests THEN Inc(calls[c].n429) ELSE calls[c].n429]
    IN  /\ calls[c].pc = "fetch"
        /\ IF o.type \in {"ok", "http"}
           THEN /\ cache' = storeResponse(call, cache, now, o.body)
                /\ calls' = [calls EXCEPT ![c] = resolveWith(call, o.body)]
           ELSE /\ cache' = cache
                /\ calls' = [calls EXCEPT
                               ![c] = IF call.fn = "fetchTMDB"
                                      THEN catchError(call, thrown(o), now)
                                      ELSE rethrow(call, thrown(o))]
        /\ UNCHANGED <<now, apiToken, ret, localStorage, hook>>

\* The network request of call c comes back with outcome o
Respond(c, o) ==
    LET call == [calls[c] EXCEPT
                   !.n429 = IF o = TooManyRequests THEN Inc(calls[c].n429) ELSE calls[c].n429]
    IN  /\ calls[c].pc = "fetch"
        /\ IF o.type = "ok"
           THEN /\ cache' = storeResponse(call, cache, now, o.body)
                /\ calls' = [calls EXCEPT ![c] = resolveWith(call, o.body)]
           ELSE /\ cache' = cache
                /\ calls' = [calls EXCEPT
                               ![c] = IF call.fn = "fetchTMDB"
                                      THEN catchError(call, thrown(o), now)
                                      ELSE rethrow(call, thrown(o))]
        /\ UNCHANGED <<now, apiToken, ret, localStorage, hook>>

\* The backoff timer of call c fires: return fetchTMDB(endpoint, { ...cacheOptions, skip: true })
TimerFires(c) ==
    LET call == [calls[c] EXCEPT !.waits = Inc(calls[c].waits)]
        cacheOptions == retryOptions(call.ttl, call.skip)
    IN  /\ calls[c].pc = "backoff"
        /\ now >= calls[c].wakeAt
        /\ calls' = [calls EXCEPT
                       ![c] = fetchTMDBCall(call, call.endpoint, cacheOptions, cache, now)]
        /\ cache' = fetchTMDBCache(call, call.endpoint, cacheOptions, cache, now)
        /\ UNCHANGED <<now, apiToken, ret, localStorage, hook>>

\* The caller has taken the result of call c
Settle(c) ==
    /\ calls[c].pc \in {"resolved", "rejected"}
    /\ calls' = [calls EXCEPT ![c] = IdleCall]
    /\ UNCHANGED <<cache, now, apiToken, ret, localStorage, hook>>

Next ==
    \/ Tick
    \/ CacheClear
    \/ \E c \in Calls, r \in FetchRequests, ttl \in FetchTtls, skip \in BOOLEAN :
          StartCachedFetch(c, r[1], r[2], ttl, skip)
    \/ \E c \in Calls, op \in Operations : StartOperation(c, op)
    \/ \E c \in Calls, o \in Outcomes : Respond(c, o)
    \/ \E c \in Calls : TimerFires(c)
    \/ \E c \in Calls : Settle(c)

\* The page: calls of the operations and of cachedFetch, overlapping freely
Spec == Init /\ [][Next]_vars

\* The page in front of a service that answers every request with a body that
\* decodes or with HTTP 429
RateLimitOutcomes == {OkResponse(b) : b \in ResponseBodies} \cup {TooManyRequests}

LiveNext ==
    \/ Tick
    \/ CacheClear
    \/ \E c \in Calls, r \in FetchRequests, ttl \in FetchTtls, skip \in BOOLEAN :
          StartCachedFetch(c, r[1], r[2], ttl, skip)
    \/ \E c \in Calls, op \in Operations : StartOperation(c, op)
    \/ \E c \in Calls, o \in RateLimitOutcomes : Respond(c, o)
    \/ \E c \in Calls : TimerFires(c)
    \/ \E c \in Calls : Settle(c)

\* ... under the scheduling the event loop guarantees: the clock advances, every
\* network request gets a response, every backoff timer that is due fires
LiveSpec ==
    /\ Init /\ [][LiveNext]_vars
    /\ WF_vars(Tick)
    /\ \A c \in Calls : WF_vars(\E o \in RateLimitOutcomes : Respond(c, o))
    /\ \A c \in Calls : WF_vars(TimerFires(c))

----------------------------------------------------------------------------
(* The operations, called with arguments *)

TimeWindows == { <<"d">>, <<"w">> }
Pages == {1, 2}
Queries == { <<"a">>, <<"a", " ", "&">> }
ShowIds == {1, 2}

\* The parameter objects given to discoverTVShows: page (abbreviated to p) is
\* left out, undefined, 0 or 1; with_genres (abbreviated to g) is left out,
\* null, '' or '1,2'
PageValues == {Undefined, Num(0), Num(1)}
GenreValues == {Null, Str(<<>>), Str(<<"1", ",", "2">>)}
DiscoverParams ==
    {<<>>}
    \cup { <<[k |-> <<"p">>, v |-> pv]>> : pv \in PageValues }
    \cup { <<[k |-> <<"g">>, v |-> gv]>> : gv \in GenreValues }
    \cup { <<[k |-> <<"p">>, v |-> pv], [k |-> <<"g">>, v |-> gv]>> :
              pv \in PageValues, gv \in GenreValues }

OperationCalls ==
    { getTrendingTVShows(w) : w \in TimeWindows }
    \cup { getPopularTVShows(pg) : pg \in Pages }
    \cup { searchTVShows(q, 1) : q \in Queries }
    \cup { getTVShowDetails(id) : id \in ShowIds }
    \cup { discoverTVShows(ps) : ps \in DiscoverParams }
    \cup { getTVGenres }

\* The service answers with a body that decodes or with HTTP 404
OperationOutcomes == { OkResponse("A"), HttpFailure(404, <<>>) }

OperationsNext ==
    \/ \E c \in Calls, op \in OperationCalls : StartOperation(c, op)
    \/ \E c \in Calls, o \in OperationOutcomes : Respond(c, o)
    \/ \E c \in Calls : Settle(c)

\* The page calling the operations with their arguments, within one instant
OperationsSpec == Init /\ [][OperationsNext]_vars

----------------------------------------------------------------------------
(* useCachedValue(key, expirationMinutes).  The clock of this part is read in *)
(* minutes: a tick is a minute.  localStorage is taken to work (getItem,      *)
(* setItem and removeItem do not throw), and nothing else writes the keys.    *)

\* 60 * 1000 ms, in ticks
MinuteInTicks == 1

\* The property names data and timestamp, abbreviated to d and t
DataName == <<"d">>
TimestampName == <<"t">>

\* An entry that also counts as expired at the instant of its expiration time
expiredAtDeadline(timestamp, expirationMinutes, t) ==
    t >= timestamp + (expirationMinutes * MinuteInTicks)

\* now > expirationTime, with expirationTime = timestamp + expirationMinutes * 60 * 1000
expired(timestamp, expirationMinutes, t) ==
    t > timestamp + (expirationMinutes * MinuteInTicks)

\* setCachedValue: the text it stores, JSON.stringify({ data: value, timestamp: Date.now() })
storedItem(value, t) ==
    JSONstringify(JObj(<<Prop(DataName, value), Prop(TimestampName, JNum(t))>>))

\* getCachedValue: null (None) or the data it returns
getCachedValueResult(storage, key, expirationMinutes, t) ==
    LET item == storage[key]
    IN  IF item = None \/ item = Some(<<>>) THEN None
        ELSE LET parsed == JSONparse(item[1])
                 data == Member(parsed, DataName)
                 timestamp == ToNumber(Member(parsed, TimestampName)[1].s)
             IN  IF expired(timestamp, expirationMinutes, t) THEN None ELSE data

\* getCachedValue: the storage it leaves
getCachedValueStorage(storage, key, expirationMinutes, t) ==
    LET item == storage[key]
    IN  IF item = None \/ item = Some(<<>>) THEN storage
        ELSE LET parsed == JSONparse(item[1])
                 timestamp == ToNumber(Member(parsed, TimestampName)[1].s)
             IN  IF expired(timestamp, expirationMinutes, t)
                 THEN [storage EXCEPT ![key] = None]
                 ELSE storage

GetCachedValue(key, expirationMinutes) ==
    /\ localStorage' = getCachedValueStorage(localStorage, key, expirationMinutes, now)
    /\ ret' = Ret("getCachedValue",
                  getCachedValueResult(localStorage, key, expirationMinutes, now))
    /\ UNCHANGED <<cache, now, apiToken, calls, hook>>

SetCachedValue(key, value) ==
    /\ localStorage' = [localStorage EXCEPT ![key] = Some(storedItem(value, now))]
    /\ ret' = Ret("setCachedValue", None)
    /\ UNCHANGED <<cache, now, apiToken, calls, hook>>

ClearCache(key) ==
    /\ localStorage' = [localStorage EXCEPT ![key] = None]
    /\ ret' = Ret("clearCache", None)
    /\ UNCHANGED <<cache, now, apiToken, calls, hook>>

\* The values cached: two strings, one of them of the characters that JSON
\* escapes or uses as punctuation, and an object
CachedValues == { JStr(<<"a">>), JStr(<<"\"", "\\", "}">>), Params1 }

\* The expirationMinutes of the hook instances
ExpirationMinutes == {0, 1}

StorageNext ==
    \/ Tick
    \/ \E key \in StorageKeys, m \in ExpirationMinutes : GetCachedValue(key, m)
    \/ \E key \in StorageKeys, value \in CachedValues : SetCachedValue(key, value)
    \/ \E key \in StorageKeys : ClearCache(key)

\* Components using useCachedValue
StorageSpec == CacheInit /\ [][StorageNext]_vars

----------------------------------------------------------------------------
(* Two callers of cachedFetch at once *)

OverlapCalls == {1, 2}

OverlapOutcomes == { OkResponse("A"), OkResponse("B"), HttpFailure(404, <<>>) }

OverlapInit ==
    /\ cache = <<>>
    /\ now = 0
    /\ apiToken = Some(<<"k">>)
    /\ calls = [c \in OverlapCalls |-> IdleCall]
    /\ ret = NoRet
    /\ localStorage = [k \in StorageKeys |-> None]
    /\ hook = InitialHook

OverlapNext ==
    \/ Tick
    \/ \E c \in OverlapCalls, r \in FetchRequests, ttl \in FetchTtls :
          StartCachedFetch(c, r[1], r[2], ttl, FALSE)
    \/ \E c \in OverlapCalls, o \in OverlapOutcomes : Respond(c, o)
    \/ \E c \in OverlapCalls : Settle(c)

\* Two components of the page calling cachedFetch for the same request, each
\* while the other's call may be under way
OverlapSpec == OverlapInit /\ [][OverlapNext]_vars

----------------------------------------------------------------------------
(* Invalidation while a request is under way *)

InFlightOutcomes == { OkResponse("A"), OkResponse("0"), HttpFailure(404, <<>>) }

\* The page issues its cachedFetch calls first; entries are then written,
\* cleared and invalidated while the calls are under way or after them
InFlightNext ==
    \/ Tick
    \/ /\ ret = NoRet
       /\ \E c \in Calls, r \in FetchRequests, ttl \in FetchTtls, skip \in BOOLEAN :
             StartCachedFetch(c, r[1], r[2], ttl, skip)
    \/ \E r \in FetchRequests, d \in SetData : CacheSet(r[1], d, r[2], None)
    \/ CacheClear
    \/ \E pattern \in InvalidatePatterns : InvalidateCache(pattern)
    \/ \E c \in Calls, o \in InFlightOutcomes : Respond(c, o)
    \/ \E c \in Calls : Settle(c)

InFlightSpec == CacheInit /\ [][InFlightNext]_vars

----------------------------------------------------------------------------
(* Urls that end in the text of a params object *)

\* The url 'u{"p":"1"}' without params, and the url 'u' without params and
\* with the params { p: '1' }
CollisionRequests ==
    { <<<<"u">>, None>>, <<<<"u">>, Some(Params1)>>,
      <<<<"u">> \o JSONstringify(Params1), None>> }

CollisionNext ==
    \/ Tick
    \/ \E r \in CollisionRequests : CacheGet(r[1], r[2])
    \/ \E r \in CollisionRequests, d \in SetData : CacheSet(r[1], d, r[2], None)
    \/ \E r \in CollisionRequests : CacheHas(r[1], r[2])

CollisionSpec == CacheInit /\ [][CollisionNext]_vars

----------------------------------------------------------------------------
(* useSearchTVShows(query, page).  The service answers a search with the      *)
(* results of the query and page asked for, or with HTTP 404.                 *)

\* String.prototype.trim, for strings whose only white space is the space
RECURSIVE trimStart(_)
trimStart(str) ==
    IF str # <<>> /\ Head(str) = " " THEN trimStart(Tail(str)) ELSE str

RECURSIVE trimEnd(_)
trimEnd(str) ==
    IF str # <<>> /\ str[Len(str)] = " " THEN trimEnd(SubSeq(str, 1, Len(str) - 1)) ELSE str

trim(str) == trimEnd(trimStart(str))

\* 'Search failed', abbreviated
SearchFailed == <<"s", "f">>

SearchQueries == { <<>>, <<" ">>, <<"a">>, <<"b">> }
SearchPages == {1, 2}

\* The search results that the service holds for a query and a page
SearchResults(query, page) ==
    CASE query = <<"a">> /\ page = 1 -> "a1"
      [] query = <<"a">> /\ page = 2 -> "a2"
      [] query = <<"b">> /\ page = 1 -> "b1"
      [] query = <<"b">> /\ page = 2 -> "b2"
      [] OTHER -> "none"

\* The body of the response to the request for an endpoint
ResultsOf(endpoint) ==
    LET asked == { qp \in SearchQueries \X SearchPages :
                     searchTVShows(qp[1], qp[2]).endpoint = endpoint }
    IN  IF asked = {} THEN "none"
        ELSE LET qp == CHOOSE qp \in asked : TRUE IN SearchResults(qp[1], qp[2])

\* search, after the await: the setState of the try block or of the catch
\* block, whatever the state is by then
settled(st, call) ==
    IF call.pc = "resolved"
    THEN [data |-> call.data, loading |-> FALSE, error |-> None]
    ELSE [data |-> JsNull, loading |-> FALSE,
          error |-> Some(IF call.kind \in {"Error", "TMDBError"}
                         THEN call.message ELSE SearchFailed)]

HookCalls == {1, 2}

\* search(searchQuery, searchPage), up to the await or, when searchTVShows
\* settles without a request (cache hit, missing token), to its end
search(searchQuery, searchPage) ==
    IF trim(searchQuery) = <<>>
    THEN /\ hook' = [hook EXCEPT !.query = searchQuery, !.page = searchPage,
                                 !.state = InitialState]
         /\ UNCHANGED <<cache, calls>>
    ELSE \E c \in HookCalls :
           LET op == searchTVShows(searchQuery, searchPage)
               cacheOptions == [ttl |-> op.ttl, skip |-> FALSE]
               call == fetchTMDBCall(calls[c], op.endpoint, cacheOptions, cache, now)
               loading == [hook.state EXCEPT !.loading = TRUE, !.error = None]
           IN  /\ calls[c].pc = "idle"
               /\ cache' = fetchTMDBCache(calls[c], op.endpoint, cacheOptions, cache, now)
               /\ IF call.pc = "fetch"
                  THEN /\ calls' = [calls EXCEPT ![c] = call]
                       /\ hook' = [hook EXCEPT !.query = searchQuery, !.page = searchPage,
                                                !.state = loading]
                  ELSE /\ calls' = calls
                       /\ hook' = [hook EXCEPT !.query = searchQuery, !.page = searchPage,
                                                !.state = settled(loading, call)]

\* The component renders with another query or page: the effect runs search
Render(query, page) ==
    /\ <<query, page>> # <<hook.query, hook.page>>
    /\ search(query, page)
    /\ UNCHANGED <<now, apiToken, ret, localStorage>>

\* refetch()
Refetch ==
    /\ search(hook.query, hook.page)
    /\ UNCHANGED <<now, apiToken, ret, localStorage>>

\* The response to the request of search call c arrives: cachedFetch stores
\* it, fetchTMDB returns or throws, and search sets the state
SearchResponds(c, o) ==
    LET call == IF o.type = "ok" THEN resolveWith(calls[c], o.body)
                ELSE catchError(calls[c], thrown(o), now)
    IN  /\ calls[c].pc = "fetch"
        /\ cache' = IF o.type = "ok" THEN storeResponse(calls[c], cache, now, o.body)
                    ELSE cache
        /\ calls' = [calls EXCEPT ![c] = IdleCall]
        /\ hook' = [hook EXCEPT !.state = settled(hook.state, call)]
        /\ UNCHANGED <<now, apiToken, ret, localStorage>>

HookInit ==
    /\ cache = <<>>
    /\ now = 0
    /\ apiToken = Some(<<"k">>)
    /\ calls = [c \in HookCalls |-> IdleCall]
    /\ ret = NoRet
    /\ localStorage = [k \in StorageKeys |-> None]
    /\ hook = InitialHook

HookNext ==
    \/ \E query \in SearchQueries, page \in SearchPages : Render(query, page)
    \/ Refetch
    \/ \E c \in HookCalls :
          \/ SearchResponds(c, OkResponse(ResultsOf(calls[c].endpoint)))
          \/ SearchResponds(c, HttpFailure(404, <<>>))

\* A component that uses useSearchTVShows, rendered with one query and page
\* after another while its searches are under way
HookSpec == HookInit /\ [][HookNext]_vars

----------------------------------------------------------------------------
(* Properties *)

\* The entry of a key is present and not expired at time t
Fresh(c, t, key) == MapHas(c, key) /\ t <= MapGet(c, key).expiresAt

\* C1: after every APICache.set call returns, the number of stored entries is
\* at most maxSize, for any keys (the empty-string key included) and any ttl.
ClaimC1 == ret.op = "set" => Len(cache) <= maxSize

\* C2: after set(k, v, ttl) at time t, with the entry left alone, get(k) returns
\* v at every time t <= now <= t + ttl and absent (null) at every time
\* now > t + ttl; and no get returns the data of an entry whose expiresAt is
\* earlier than now.
ClaimC2 ==
    [][ /\ \A r \in DirectRequests, d \in SetData, ttl \in TtlArgs \ {None} :
              CacheSet(r[1], d, r[2], ttl)
              => \A t2 \in now..(now + TtlOption + 1) :
                    getValue(cache', t2, r[1], r[2])
                      = IF t2 <= now + ttl[1] THEN d ELSE JsNull
        /\ \A r \in DirectRequests :
              LET key == generateKey(r[1], r[2])
              IN  (CacheGet(r[1], r[2]) /\ MapHas(cache, key)
                     /\ MapGet(cache, key).expiresAt < now)
                  => ret'.value = JsNull
      ]_vars

\* C3: a non-skip cachedFetch for a (url, options) whose response an earlier
\* cachedFetch stored, made before the entry expires and with the entry still
\* in the cache, returns the stored payload and issues no network request,
\* whatever the payload (null, 0, false and the empty string included).
ClaimC3 ==
    [][ \A c \in Calls, r \in FetchRequests, ttl \in FetchTtls :
           LET key == generateKey(r[1], r[2])
           IN  (StartCachedFetch(c, r[1], r[2], ttl, FALSE) /\ Fresh(cache, now, key))
               => /\ calls'[c].pc = "resolved"
                  /\ calls'[c].data = MapGet(cache, key).data
                  /\ calls'[c].attempts = 0
      ]_vars

\* C4: when the first network attempt of an operation fails with HTTP 429, the
\* operation waits for the backoff timer without issuing a request; the retry
\* is issued when the timer fires and not before, with the same url, request
\* options and ttl and with skip true; and when that second attempt succeeds
\* with payload P the operation resolves to P after exactly two attempts and
\* exactly one backoff wait.
TheoremC4 ==
    [][ \A c \in Calls :
           /\ (Respond(c, TooManyRequests) /\ calls[c].fn = "fetchTMDB"
                 /\ calls[c].attempts = 1)
              => /\ calls'[c].pc = "backoff"
                 /\ calls'[c].attempts = 1
                 /\ calls'[c].waits = 0
           /\ (calls[c].pc = "backoff" /\ calls'[c] # calls[c])
              => /\ now >= calls[c].wakeAt
                 /\ calls'[c].pc = "fetch"
                 /\ calls'[c].attempts = Inc(calls[c].attempts)
                 /\ calls'[c].waits = Inc(calls[c].waits)
                 /\ calls'[c].url = calls[c].url
                 /\ calls'[c].options = calls[c].options
                 /\ calls'[c].ttl = calls[c].ttl
                 /\ calls'[c].skip = TRUE
           /\ \A b \in ResponseBodies :
                 (Respond(c, OkResponse(b)) /\ calls[c].fn = "fetchTMDB"
                    /\ calls[c].attempts = 2 /\ calls[c].n429 = 1)
                 => /\ calls'[c].pc = "resolved"
                    /\ calls'[c].data = b
                    /\ calls'[c].attempts = 2
                    /\ calls'[c].waits = 1
      ]_vars

\* An operation has resolved to the payload of its second attempt, the first
\* having failed with HTTP 429
WitnessC4 ==
    \E c \in Calls :
       /\ calls[c].fn = "fetchTMDB" /\ calls[c].pc = "resolved"
       /\ calls[c].attempts = 2 /\ calls[c].n429 = 1 /\ calls[c].waits = 1
       /\ calls[c].data = "A"

\* C5: one operation call makes at most two network attempts, and when the
\* first attempt and the retry have both failed with HTTP 429 the call has
\* rejected.
ClaimC5 ==
    \A c \in Calls :
       /\ calls[c].attempts <= 2
       /\ calls[c].n429 >= 2 => calls[c].pc = "rejected"

\* C6: every call that is under way eventually resolves or rejects, given that
\* every request gets a response and every backoff timer fires.
ClaimC6 ==
    \A c \in Calls :
       (calls[c].pc \in {"fetch", "backoff"}) ~> (calls[c].pc \in {"resolved", "rejected"})

\* C7: a cachedFetch call with skip = true always issues a network request,
\* also when an unexpired entry for its (url, options) is in the cache, and
\* resolves to the payload of that request.
TheoremC7 ==
    [][ \A c \in Calls :
           /\ \A r \in FetchRequests, ttl \in FetchTtls :
                 StartCachedFetch(c, r[1], r[2], ttl, TRUE)
                 => /\ calls'[c].pc = "fetch"
                    /\ calls'[c].attempts = 1
           /\ \A b \in ResponseBodies :
                 (Respond(c, OkResponse(b)) /\ calls[c].skip)
                 => /\ calls'[c].pc = "resolved"
                    /\ calls'[c].data = b
      ]_vars

\* A skip call has resolved to a payload other than the one the cache holds,
\* unexpired, for the same (url, options)
WitnessC7 ==
    \E c \in Calls :
       LET key == generateKey(calls[c].url, calls[c].options)
       IN  /\ calls[c].fn = "cachedFetch" /\ calls[c].skip /\ calls[c].pc = "resolved"
           /\ calls[c].attempts = 1
           /\ Fresh(cache, now, key)
           /\ MapGet(cache, key).data = "A"
           /\ calls[c].data = "0"

\* C8: no step of a call made with skip = true, so none of a rate-limit retry,
\* changes the cache: its entries, their data and expiry, and their order.
TheoremC8 ==
    [][ \A c \in Calls :
           (calls'[c] # calls[c] /\ (calls[c].skip \/ calls'[c].skip)) => cache' = cache
      ]_vars

\* A rate-limit retry has succeeded and its payload is not in the cache
WitnessC8 ==
    \E c \in Calls :
       /\ calls[c].fn = "fetchTMDB" /\ calls[c].skip /\ calls[c].pc = "resolved"
       /\ calls[c].attempts = 2 /\ calls[c].n429 = 1
       /\ ~MapHas(cache, generateKey(calls[c].url, calls[c].options))

\* C9: when a network attempt fails with anything other than HTTP 429 (another
\* non-2xx status with any status text, a transport error with any message, a
\* body-decode error), the call rejects there and then: it awaits no retry.
ClaimC9 ==
    [][ \A c \in Calls, o \in OtherFailures :
           Respond(c, o) => calls'[c].pc = "rejected"
      ]_vars

\* No credential is configured: API_TOKEN is undefined or the empty string
tokenAbsent == apiToken = None \/ apiToken = Some(<<>>)

\* C10: with no API credential configured (undefined or the empty string),
\* every operation rejects with the configuration error at once: no network
\* request is issued, the cache is neither read nor written, nothing is retried.
TheoremC10 ==
    [][ \A c \in Calls :
           tokenAbsent =>
              /\ \A op \in Operations :
                    StartOperation(c, op)
                    => /\ calls'[c].pc = "rejected"
                       /\ calls'[c].kind = "TMDBError"
                       /\ calls'[c].message = NotConfigured
                       /\ cache' = cache
              /\ (calls'[c].fn = "fetchTMDB")
                 => /\ calls'[c].pc = "rejected"
                    /\ calls'[c].attempts = 0
                    /\ calls'[c].waits = 0
      ]_vars

\* An operation has rejected for want of the credential
WitnessC10 ==
    \E c \in Calls :
       /\ tokenAbsent
       /\ calls[c].fn = "fetchTMDB" /\ calls[c].pc = "rejected"
       /\ calls[c].message = NotConfigured

\* C11: every rejection that reaches the caller of an operation is a TMDBError;
\* when the failure below was an Error the TMDBError keeps its message, when
\* it was a value that is not an Error the message is the generic one; the
\* same holds when the attempt that failed was the retry.
TheoremC11 ==
    [][ \A c \in Calls :
           /\ (calls'[c].fn = "fetchTMDB" /\ calls'[c].pc = "rejected")
              => calls'[c].kind = "TMDBError"
           /\ \A o \in Outcomes :
                 (Respond(c, o) /\ calls[c].fn = "fetchTMDB" /\ calls'[c].pc = "rejected")
                 => calls'[c].message
                      = IF o.type = "value" THEN FailedToFetch
                        ELSE IF o.type = "http"
                             THEN <<"H", "T", "T", "P", " ">> \o Digits(o.status)
                                    \o <<":", " ">> \o o.text
                             ELSE o.text
      ]_vars

\* The retry of an operation has failed with a value that is not an Error and
\* the operation has rejected with a TMDBError of the generic message
WitnessC11 ==
    \E c \in Calls :
       /\ calls[c].fn = "fetchTMDB" /\ calls[c].pc = "rejected"
       /\ calls[c].attempts = 2 /\ calls[c].n429 = 1
       /\ calls[c].kind = "TMDBError" /\ calls[c].message = FailedToFetch

\* C12: when an attempt of an operation comes back with a non-2xx status other
\* than 429 and the operation rejects, the error it rejects with has that
\* status in its status field and a message that is not empty.
ClaimC12 ==
    [][ \A c \in Calls, o \in OtherFailures :
           (Respond(c, o) /\ o.type = "http" /\ calls[c].fn = "fetchTMDB"
              /\ calls'[c].pc = "rejected")
           => /\ calls'[c].status = Some(o.status)
              /\ calls'[c].message # <<>>
      ]_vars

\* The Map's order is the order in which its entries were written, as it is
\* when no entry has been read since it was inserted
InInsertionOrder(c) ==
    \A i \in 1..Len(c), j \in 1..Len(c) : i < j => c[i].timestamp <= c[j].timestamp

\* C13: when the cache holds maxSize unexpired entries, none read since its
\* insertion, set of a new key removes the entry inserted first, keeps all the
\* others as they are and in their order, and adds the new entry at the end.
ClaimC13 ==
    [][ \A r \in DirectRequests, d \in SetData, ttl \in TtlArgs :
           LET key == generateKey(r[1], r[2])
           IN  (CacheSet(r[1], d, r[2], ttl) /\ Len(cache) = maxSize
                  /\ evictExpired(cache, now) = cache /\ InInsertionOrder(cache)
                  /\ ~MapHas(cache, key))
               => /\ ~MapHas(cache', Head(cache).key)
                  /\ Len(cache') = maxSize
                  /\ SubSeq(cache', 1, maxSize - 1) = Tail(cache)
                  /\ cache'[maxSize].key = key
      ]_vars

\* C14: a get that hits key k leaves k at the most-recently-used end of the
\* Map, its data and expiry unchanged and the other unexpired entries in their
\* order; and a set removes for capacity only the entry at the other end (every
\* other unexpired entry stays as it is, or is the entry that the set writes),
\* so that among the entries present at the get k is the last one to be evicted.
TheoremC14 ==
    [][ /\ ret'.op = "get"
           => \A r \in DirectRequests :
                 LET key == generateKey(r[1], r[2])
                 IN  (CacheGet(r[1], r[2]) /\ Fresh(cache, now, key))
                     => /\ cache' # <<>>
                        /\ cache'[Len(cache')] = MapGet(cache, key)
                        /\ SubSeq(cache', 1, Len(cache') - 1)
                             = SelectSeq(cache, LAMBDA e : e.key # key /\ now <= e.expiresAt)
        /\ (ret'.op = "set" /\ now' = now)
           => LET live == SelectSeq(cache, LAMBDA e : now <= e.expiresAt)
              IN  \A i \in 2..Len(live) :
                     \E j \in 1..Len(cache') :
                        /\ cache'[j].key = live[i].key
                        /\ cache'[j] = live[i] \/ cache'[j].timestamp = now
      ]_vars

\* A get has hit an entry of a full cache that was written before the other
\* entry, and has left it at the most-recently-used end
WitnessC14 ==
    /\ ret.op = "get" /\ ret.value = "A"
    /\ Len(cache) = maxSize
    /\ cache[Len(cache)].data = "A"
    /\ cache[Len(cache)].timestamp < cache[1].timestamp
    /\ now <= cache[1].expiresAt

\* C15: every operation passes to cachedFetch the ttl of the policy table
\* (search 5 min, discover 10 min, popular 15 min, trending 30 min, show
\* details 60 min, genre list 24 h), whatever its arguments and whatever calls
\* were made before; the response it stores expires that long after.
TheoremC15 ==
    [][ \A c \in Calls :
           /\ (calls[c].pc = "idle" /\ calls'[c].pc # "idle" /\ ~tokenAbsent)
              => \A op \in OperationCalls :
                    StartOperation(c, op)
                    => /\ calls'[c].fn = "fetchTMDB"
                       /\ calls'[c].url = BASE_URL \o op.endpoint
                       /\ calls'[c].ttl
                            = Some(60000 * (CASE op.name = "searchTVShows" -> 5
                                              [] op.name = "discoverTVShows" -> 10
                                              [] op.name = "getPopularTVShows" -> 15
                                              [] op.name = "getTrendingTVShows" -> 30
                                              [] op.name = "getTVShowDetails" -> 60
                                              [] op.name = "getTVGenres" -> 24 * 60))
           /\ (calls[c].pc = "fetch" /\ calls'[c].pc = "resolved")
              => LET key == generateKey(calls[c].url, calls[c].options)
                 IN  /\ MapHas(cache', key)
                     /\ MapGet(cache', key).expiresAt = now + calls[c].ttl[1]
      ]_vars

\* getTVGenres has stored its response, to expire 24 hours later
WitnessC15 ==
    \E c \in Calls :
       LET key == generateKey(calls[c].url, calls[c].options)
       IN  /\ calls[c].fn = "fetchTMDB" /\ calls[c].pc = "resolved"
           /\ calls[c].endpoint = <<"/", "g">>
           /\ calls[c].attempts = 1
           /\ MapHas(cache, key)
           /\ MapGet(cache, key).expiresAt = now + 86400000

\* The value of a parameter counts as absent
AbsentValue(v) == v.t = "undefined" \/ v.t = "null" \/ v = Str(<<>>)

\* C16: the url that discoverTVShows requests names exactly the parameters
\* whose value is not undefined, null or ''; parameter objects that differ only
\* in parameters of such a value get the same url and the same cache key; and
\* when no parameter remains the url has no '?'.
TheoremC16 ==
    [][ \A c \in Calls :
           (calls[c].pc = "idle" /\ calls'[c].pc # "idle" /\ ~tokenAbsent)
           => \A ps \in DiscoverParams :
                 StartOperation(c, discoverTVShows(ps))
                 => /\ \A i \in 1..Len(ps) :
                          AbsentValue(ps[i].v)
                          <=> ~ \E sep \in {"?", "&"} :
                                  Includes(calls'[c].url, <<sep>> \o ps[i].k \o <<"=">>)
                    /\ (\A i \in 1..Len(ps) : AbsentValue(ps[i].v))
                       => ~Includes(calls'[c].url, <<"?">>)
                    /\ \A qs \in DiscoverParams :
                          (SelectSeq(ps, LAMBDA e : ~AbsentValue(e.v))
                             = SelectSeq(qs, LAMBDA e : ~AbsentValue(e.v)))
                          => /\ BASE_URL \o discoverTVShows(qs).endpoint = calls'[c].url
                             /\ generateKey(BASE_URL \o discoverTVShows(qs).endpoint,
                                            requestOptions(apiToken))
                                  = generateKey(calls'[c].url, calls'[c].options)
      ]_vars

\* discoverTVShows has been answered from the cache under the url that has
\* the page and no other parameter
WitnessC16 ==
    \E c \in Calls :
       /\ calls[c].fn = "fetchTMDB" /\ calls[c].pc = "resolved"
       /\ calls[c].attempts = 0
       /\ calls[c].url = BASE_URL \o <<"/", "d", "?", "p", "=", "1">>

\* Two JSON values are structurally equal: the same string, or objects with
\* the same property names and structurally equal values under each name
RECURSIVE StructurallyEqual(_, _)
StructurallyEqual(v, w) ==
    /\ v.t = w.t
    /\ IF v.t = "str" THEN v.s = w.s
       ELSE /\ Len(v.props) = Len(w.props)
            /\ \A i \in 1..Len(v.props) :
                  \E j \in 1..Len(w.props) :
                     /\ v.props[i].k = w.props[j].k
                     /\ StructurallyEqual(v.props[i].v, w.props[j].v)

\* The same url, and params that are both undefined or structurally equal
SameRequest(r, q) ==
    /\ r[1] = q[1]
    /\ (r[2] = None) = (q[2] = None)
    /\ r[2] # None => StructurallyEqual(r[2][1], q[2][1])

\* C17: the same url with structurally equal options yields the same key at
\* every call, so a get finds the unexpired value that a set stored under the
\* same url and structurally equal options, whatever calls came in between.
ClaimC17 ==
    [][ ret'.op = "get"
        => \A r \in KeyRequests, q \in KeyRequests :
              (SameRequest(r, q) /\ CacheGet(q[1], q[2])
                 /\ Fresh(cache, now, generateKey(r[1], r[2])))
              => /\ generateKey(q[1], q[2]) = generateKey(r[1], r[2])
                 /\ ret'.value = MapGet(cache, generateKey(r[1], r[2])).data
      ]_vars

\* C18: a non-skip call for an uncached (url, options) made while another call
\* for the same (url, options) awaits its response issues its own request; and
\* whenever a response comes in after the other call has succeeded, the
\* entry of the key holds the payload and the expiry of this later response.
TheoremC18 ==
    [][ \A c \in OverlapCalls : \A d \in OverlapCalls \ {c} :
           /\ \A r \in FetchRequests, ttl \in FetchTtls :
                 (StartCachedFetch(c, r[1], r[2], ttl, FALSE)
                    /\ calls[d].pc = "fetch" /\ calls[d].url = r[1] /\ calls[d].options = r[2]
                    /\ ~MapHas(cache, generateKey(r[1], r[2])))
                 => /\ calls'[c].pc = "fetch"
                    /\ calls'[c].attempts = 1
                    /\ calls'[d] = calls[d]
           /\ \A b \in {"A", "B"} :
                 (Respond(c, OkResponse(b)) /\ calls[d].pc = "resolved"
                    /\ calls[d].url = calls[c].url /\ calls[d].options = calls[c].options)
                 => LET key == generateKey(calls[c].url, calls[c].options)
                    IN  /\ MapHas(cache', key)
                        /\ MapGet(cache', key).data = b
                        /\ MapGet(cache', key).expiresAt
                             = now + (IF calls[c].ttl = None THEN defaultTTL
                                      ELSE calls[c].ttl[1])
      ]_vars

\* Both calls were under way at once (neither found the other's entry, within
\* one instant), both have succeeded with their own request, and the entry
\* holds the payload and expiry of call 2, whose response came last
WitnessC18 ==
    LET key == generateKey(calls[2].url, calls[2].options)
    IN  /\ now = 0
        /\ calls[1].pc = "resolved" /\ calls[1].attempts = 1 /\ calls[1].data = "A"
        /\ calls[1].ttl = None
        /\ calls[2].pc = "resolved" /\ calls[2].attempts = 1 /\ calls[2].data = "B"
        /\ calls[2].ttl = Some(1)
        /\ calls[1].url = calls[2].url /\ calls[1].options = calls[2].options
        /\ MapHas(cache, key)
        /\ MapGet(cache, key).data = "B"
        /\ MapGet(cache, key).expiresAt = 1

\* C19: invalidateCache(pattern) leaves exactly the entries whose key does not
\* contain the string pattern (does not match the regular expression, which
\* here matches a literal text), each with its data and expiry and all in
\* their previous order.
ClaimC19 ==
    [][ ret'.op = "invalidateCache"
        => \A pattern \in InvalidatePatterns :
              InvalidateCache(pattern)
              => cache' = SelectSeq(cache, LAMBDA e : ~Includes(e.key, pattern.source))
      ]_vars

EvictedKeys(c, t, d) ==
    { c[i].key : i \in { j \in 1..Len(c) : t <= c[j].expiresAt /\ ~MapHas(d, c[j].key) } }

\* C21: a set first sweeps, then evicts for capacity, then inserts: after it no
\* expired entry is left; an unexpired entry is evicted only if the number of
\* unexpired entries was at or above maxSize, and it is then the first of them;
\* and at most one unexpired entry is evicted.
TheoremC21 ==
    [][ (ret'.op = "set" /\ now' = now)
        => LET live == SelectSeq(cache, LAMBDA e : now <= e.expiresAt)
               evicted == EvictedKeys(cache, now, cache')
           IN  /\ \A i \in 1..Len(cache') : now <= cache'[i].expiresAt
               /\ Cardinality(evicted) <= 1
               /\ evicted # {} => /\ Len(live) >= maxSize
                                  /\ evicted = {live[1].key}
      ]_vars

\* A set at time 2 has swept and inserted: the cache is full, and the entry
\* written at time 0, which expires at this very instant, is still there
WitnessC21 ==
    /\ ret.op = "set" /\ now = 2
    /\ Len(cache) = maxSize
    /\ cache[1].timestamp = 0 /\ cache[1].expiresAt = 2
    /\ cache[Len(cache)].timestamp = 2

\* C22: has(k) returns true exactly when the entry of k is present and not
\* expired (now <= expiresAt), which is when get(k) at the same instant
\* returns the stored data; otherwise it returns false and get returns null;
\* and when the entry is expired has removes it.
TheoremC22 ==
    [][ ret'.op = "has"
        => \A r \in DirectRequests :
              LET key == generateKey(r[1], r[2])
                  hit == MapHas(cache, key) /\ now <= MapGet(cache, key).expiresAt
              IN  CacheHas(r[1], r[2])
                  => /\ ret'.value = IF hit THEN "true" ELSE "false"
                     /\ getValue(cache, now, r[1], r[2])
                          = IF hit THEN MapGet(cache, key).data ELSE JsNull
                     /\ ~hit => ~MapHas(cache', key)
                     /\ hit => cache' = cache
      ]_vars

\* has has returned true for the only entry at the very instant it expires
WitnessC22 ==
    /\ ret.op = "has" /\ ret.value = "true"
    /\ now > 0
    /\ Len(cache) = 1
    /\ cache[1].expiresAt = now

\* C23: an entry is created or replaced only by the successful response to a
\* request of a non-skip call: every step that leaves in the cache an entry
\* that was not there is such a response, and a failed request (non-2xx
\* status, transport error, decode error) leaves the cache as it is, the
\* entry of its key included.
TheoremC23 ==
    [][ \A c \in Calls :
           /\ (\E i \in 1..Len(cache') : \A j \in 1..Len(cache) : cache'[i] # cache[j])
              => /\ ~calls[c].skip
                 /\ \E body \in ResponseBodies : Respond(c, OkResponse(body))
           /\ calls[c].pc = "fetch"
              => \A o \in Outcomes : (o.type # "ok" /\ Respond(c, o)) => cache' = cache
      ]_vars

\* A non-skip call has gone to the network although its key had an entry (a
\* falsy payload), its request has failed, and the entry is still there
WitnessC23 ==
    \E c \in Calls :
       LET key == generateKey(calls[c].url, calls[c].options)
       IN  /\ calls[c].pc = "rejected" /\ ~calls[c].skip /\ calls[c].attempts = 1
           /\ MapHas(cache, key)
           /\ MapGet(cache, key).data = "0"
           /\ MapGet(cache, key).timestamp < now

\* C24: every entry in the cache, stored by set with a ttl that is omitted, 0
\* or positive, expires strictly later than it was created.
TheoremC24 == \A i \in 1..Len(cache) : cache[i].expiresAt > cache[i].timestamp

\* A set with the smallest positive ttl has just stored an entry
WitnessC24 ==
    /\ ret.op = "set"
    /\ cache # <<>>
    /\ cache[Len(cache)].timestamp = now
    /\ cache[Len(cache)].expiresAt = now + 1

\* C25: an entry stored with an explicit ttl of 0 has expiresAt equal to its
\* creation time, so that get and has take it for absent at every later
\* instant; an entry stored with the ttl omitted expires defaultTTL later.
ClaimC25 ==
    [][ (ret'.op = "set" /\ now' = now)
        => \A r \in DirectRequests, d \in SetData :
              LET key == generateKey(r[1], r[2])
              IN  /\ CacheSet(r[1], d, r[2], Some(0))
                     => /\ MapGet(cache', key).expiresAt = now
                        /\ \A t2 \in (now + 1)..(now + TtlOption + 1) :
                              /\ getValue(cache', t2, r[1], r[2]) = JsNull
                              /\ ~hasValue(cache', t2, r[1], r[2])
                  /\ CacheSet(r[1], d, r[2], None)
                     => MapGet(cache', key).expiresAt = now + defaultTTL
      ]_vars

\* The keys of a Map in iteration order
KeysOf(c) == [i \in 1..Len(c) |-> c[i].key]

\* The keys of the direct requests
DirectKey == [r \in DirectRequests |-> generateKey(r[1], r[2])]

\* C26 as stated: a set on a key that is present (and unexpired) leaves the
\* key where it was in the eviction order: the keys the Map holds afterwards
\* are in the order they had before.
ClaimC26 ==
    [][ (ret'.op = "set" /\ now' = now)
        => \A r \in DirectRequests :
              LET key == generateKey(r[1], r[2])
                  live == SelectSeq(cache, LAMBDA e : now <= e.expiresAt)
              IN  (/\ \E i \in 1..Len(live) : live[i].key = key
                   /\ \E d \in SetData, ttl \in TtlArgs : CacheSet(r[1], d, r[2], ttl))
                  => KeysOf(cache')
                       = KeysOf(SelectSeq(live, LAMBDA e : MapHas(cache', e.key)))
      ]_vars

\* C26, amended: a set leaves the keys that survive its sweep and its
\* capacity eviction where they were in the eviction order, the key it
\* overwrites included. A key that was present, was removed by the sweep or
\* the eviction (it had expired, or it was the first entry of a full cache)
\* and is present afterwards is the key that was set: it carries the
\* timestamp and an expiry of this instant and is at the end of the order.
TheoremC26 ==
    [][ (ret'.op = "set" /\ now' = now)
        => LET live == SelectSeq(cache, LAMBDA e : now <= e.expiresAt)
               kept == evictLRU(live)
               n == Len(cache')
           IN  /\ KeysOf(SelectSeq(cache', LAMBDA e : MapHas(kept, e.key))) = KeysOf(kept)
               /\ \A i \in 1..Len(cache) :
                     (~MapHas(kept, cache[i].key) /\ MapHas(cache', cache[i].key))
                     => /\ cache'[n].key = cache[i].key
                        /\ cache'[n].timestamp = now
                        /\ \E ttl \in TtlArgs :
                              cache'[n].expiresAt = now + ttlOrDefault(ttl)
      ]_vars

\* An overwrite in place: the entry written at this instant is followed in the
\* order by an entry written earlier.
WitnessC26 ==
    /\ ret.op = "set"
    /\ Len(cache) = 2
    /\ cache[1].timestamp = now
    /\ cache[2].timestamp < now

\* C27: a set on a key that is present while the cache holds maxSize
\* unexpired entries removes the first entry of the eviction order: the
\* entry that was first is gone, and the cache then holds maxSize - 1 entries
\* when the first entry was another key and maxSize entries when it was the
\* key being set (which is then written anew at the end).
ClaimC27 ==
    [][ (ret'.op = "set" /\ now' = now)
        => \A r \in DirectRequests :
              LET key == DirectKey[r]
                  live == SelectSeq(cache, LAMBDA e : now <= e.expiresAt)
              IN  (/\ Len(live) = maxSize
                   /\ MapHas(live, key)
                   /\ \E d \in SetData, ttl \in TtlArgs : CacheSet(r[1], d, r[2], ttl))
                  => IF live[1].key = key
                     THEN /\ Len(cache') = maxSize
                          /\ cache'[Len(cache')].key = key
                          /\ KeysOf(SubSeq(cache', 1, maxSize - 1)) = KeysOf(Tail(live))
                     ELSE /\ Len(cache') = maxSize - 1
                          /\ ~MapHas(cache', live[1].key)
      ]_vars

\* C28: clear() and invalidateCache() leave a request that is under way alone,
\* and a request of a non-skip call that was under way when one of them ran
\* writes its response when it completes: the key is then present with the
\* data of that response, stamped at the time of the response.
TheoremC28 ==
    [][ \A c \in Calls :
          /\ (calls[c].pc = "fetch" /\ ret' # ret
                 /\ ret'.op \in {"clear", "invalidateCache"})
             => calls'[c] = calls[c]
          /\ (calls[c].pc = "fetch" /\ ~calls[c].skip
                 /\ ret.op \in {"clear", "invalidateCache"})
             => \A body \in ResponseBodies :
                   Respond(c, OkResponse(body))
                   => LET key == generateKey(calls[c].url, calls[c].options)
                      IN  /\ MapHas(cache', key)
                          /\ MapGet(cache', key).data = body
                          /\ MapGet(cache', key).timestamp = now
      ]_vars

\* The cache was cleared while the request was under way, and the response
\* has put the key back
WitnessC28 ==
    \E c \in Calls :
        /\ ret.op = "clear"
        /\ calls[c].pc = "resolved"
        /\ ~calls[c].skip
        /\ MapHas(cache, generateKey(calls[c].url, calls[c].options))
        /\ MapGet(cache, generateKey(calls[c].url, calls[c].options)).data = calls[c].data

\* C29: two (url, params) pairs that differ in url or in params content have
\* different keys, and a set under one pair never changes what get returns
\* for another pair to the data that was set: get for the other pair returns
\* afterwards what it returned before, or null if its entry was evicted.
ClaimC29 ==
    [][ (ret'.op = "set" /\ now' = now)
        => \A r1 \in CollisionRequests, r2 \in CollisionRequests :
              r1 # r2
              => /\ generateKey(r1[1], r1[2]) # generateKey(r2[1], r2[2])
                 /\ \A d \in SetData :
                       CacheSet(r1[1], d, r1[2], None)
                       => getValue(cache', now, r2[1], r2[2])
                            \in {getValue(cache, now, r2[1], r2[2]), JsNull}
      ]_vars

\* C30: once every search request has settled, and the last render asked for
\* a search (its query is not blank, so that its query and page are those of
\* the search issued last), the data and the error of the hook are those of
\* that query and page: the data is the results for them and there is no
\* error, or there is no data but the error of the failed search.
ClaimC30 ==
    (/\ \A c \in DOMAIN calls : calls[c].pc = "idle"
     /\ trim(hook.query) # <<>>)
    => \/ /\ hook.state.data = SearchResults(hook.query, hook.page)
          /\ hook.state.error = None
       \/ /\ hook.state.data = JsNull
          /\ hook.state.error # None

====
